---- MODULE Spec2Model ----
(***************************************************************************)
(* Pippin wallet server: the RPC handlers of server/pippin_server.py and   *)
(* the work-generation race of network/work_client.py.                     *)
(*                                                                         *)
(* The specifications of this module:                                      *)
(*   SpecWork      the work client (WorkClient.work_generate, its tasks);  *)
(*   SpecInstance  the work client's singleton (instance() and close());   *)
(*   Spec          the RPC handlers over the wallet store and pipeline;    *)
(*   SpecLock      wallet_lock among requests on an unlocked wallet;       *)
(*   SpecGateway   the gateway's routing of a request body;                *)
(*   SpecMain      the main routine's start-up and shutdown.               *)
(***************************************************************************)
EXTENDS Integers, Sequences, FiniteSets, TLC

VARIABLES
    \* ---- work client (network/work_client.py)
    work_urls,      \* WorkClient.work_urls: the peer list built by instance()
    work_failure,   \* the "work_failure" key of the shared store: 0 absent, else its TTL
    calls,          \* the running work_generate calls, one record per caller
    client,         \* the WorkClient class: _instance, session, and the configuration it reads
    \* ---- wallet server (server/pippin_server.py and the stores it calls)
    wallets,        \* the wallet table, with the process-local table of unlocked seeds
    accounts,       \* the account table: per wallet, its rows in insertion order
    blocks,         \* the block table: one row per block this server published
    node,           \* the upstream node's ledger: per address, chain height and balance
    locks,          \* the per-account locks of the block pipeline
    req,            \* the RPC requests in flight, one record per client connection
    last,           \* the request answered last, with its response
    started,        \* the number of requests the gateway has dispatched
    \* ---- process (main.py)
    main            \* the main routine: its place in the code and what it has done

workVars == <<work_urls, work_failure, calls, client>>
serverVars == <<wallets, accounts, blocks, node, locks, req, last, started, main>>

vars ==
    <<work_urls, work_failure, calls, client, wallets, accounts, blocks, node, locks, req,
      last, started, main>>

(***************************************************************************)
(* Work client                                                             *)
(***************************************************************************)

\* The caller of work_generate (the block pipeline); it calls again once a call
\* has returned or raised.  Calls meet only through the work_failure flag, which
\* each reads once (line 58), so a concurrent call is a flag set or expired at
\* any time.
Callers == {"g1"}

\* Configured work peers (config.work_peers) and the node URL (config.node_url).
PeerConfigs == {<< >>, <<"p1">>}
NodeUrl == "node"

\* Block roots handed to work_generate and the 8-byte work values, abstracted.
Roots == {1, 2}
Works == 0..3
NoWork == -1

\* The wait of one round (asyncio.wait(..., timeout=30)).
WaitTimeout == 30
\* The TTL the failure flag is stored with (expires=300).
FailureTtl == 300
\* Wait rounds that ended by timeout are counted up to this bound.
MaxRounds == 2

\* nanopy.work_difficulty, the threshold used when the caller passes none, and a
\* lower threshold a caller may pass (receive difficulty).
DefaultDifficulty == 3
NoDifficulty == 0
Difficulties == {NoDifficulty, 2}

\* Blake2b-8 of work || root as a number in 0..3 (abstract digest).
WorkHash(root, work) == (root + work) % 4

\* work_verify: the digest of (work, root) reaches the threshold.
work_verify(root, work, difficulty) == WorkHash(root, work) >= difficulty

\* NanoUtil.work_generate: the local CPU search ends on a work value that verifies.
LocalWorks(root, difficulty) == {w \in Works : work_verify(root, w, difficulty)}

\* What a task can complete with.  A peer request returns whatever JSON the peer
\* answered (a dict with work, a bare string, a dict with error, a dict with
\* neither, null) or raises (connection failure, timeout, undecodable body).
Unbound == [kind |-> "unbound", work |-> NoWork]
PeerResults ==
    {[kind |-> k, work |-> w] : k \in {"work", "str"}, w \in Works}
    \cup {[kind |-> k, work |-> NoWork] : k \in {"error", "other", "none", "exc"}}

\* The local task returns the work string.
LocalResults(root, difficulty) ==
    {[kind |-> "str", work |-> w] : w \in LocalWorks(root, difficulty)}

LocalTask == 0
TaskIds == 0..Len(work_urls)
PeerTasks == 1..Len(work_urls)

IdleCall ==
    [pc |-> "idle", hash |-> 0, difficulty |-> 0,
     status |-> << >>, result |-> << >>,
     ret |-> NoWork, cancels |-> << >>, rounds |-> 0,
     \* history of the call, for the properties: the work of the first task that
     \* completed with one, the flag as line 58 read it, the TTL line 90 stored,
     \* and whether the value returned is line 91's
     firstWork |-> NoWork, flagAtCheck |-> FALSE,
     setFailure |-> 0, viaFinal |-> FALSE]

\* Line 58: do it locally if no peers or if peers have been failing.
SpawnLocalAlways(flag, urls) == TRUE
SpawnLocal(flag, urls) == flag \/ Len(urls) = 0

\* instance(): work_urls is the configured peers, plus the node when
\* node_work_generate is set.
InstanceUrls(peers, node_work_generate) ==
    IF node_work_generate THEN Append(peers, NodeUrl) ELSE peers

\* The users of the work client, each keeping the object instance() gave it.
Holders == {"h1", "h2"}
\* Objects instance() creates are numbered up to this bound; None is 0.
MaxInstances == 3
None == 0

\* The class before its first instance(): _instance is None, no session, and
\* Config holding the peers as configured.  configured keeps the peers as they
\* were read from the configuration, for the properties.
NoClient(peers, node_work_generate) ==
    [instance |-> None, created |-> 0, session |-> "unset",
     work_peers |-> peers, node_work_generate |-> node_work_generate,
     configured |-> peers, held |-> [h \in Holders |-> None]]

\* Lines 20-29: instance().  work_urls is bound to the list Config holds
\* (line 24), so the append of line 26 is an append to that list.
instance(h) ==
    /\ IF client.instance = None
       THEN /\ client.created < MaxInstances
            /\ work_urls' = InstanceUrls(client.work_peers, client.node_work_generate)
            /\ client' = [client EXCEPT !.instance = client.created + 1,
                                        !.created = client.created + 1,
                                        !.work_peers = work_urls',
                                        !.session = "open",
                                        !.held[h] = client.created + 1]
       ELSE /\ client' = [client EXCEPT !.held[h] = client.instance]
            /\ UNCHANGED work_urls
    /\ UNCHANGED <<work_failure, calls, serverVars>>

\* Lines 31-36: close().  The session is closed when there is one, and
\* _instance is reset; work_urls and the configuration stay as they are.
close ==
    /\ client' = [client EXCEPT !.instance = None,
                                !.session = IF @ = "unset" THEN @ ELSE "closed"]
    /\ UNCHANGED <<work_urls, work_failure, calls, serverVars>>

NextInstance ==
    \/ \E h \in Holders : instance(h)
    \/ close

\* The class after the first instance() of the process, held by every user.
FirstInstance(peers, node_work_generate) ==
    [NoClient(peers, node_work_generate) EXCEPT
        !.instance = 1, !.created = 1, !.session = "open",
        !.work_peers = InstanceUrls(peers, node_work_generate),
        !.held = [h \in Holders |-> 1]]

InitWorkClient ==
    /\ \E p \in PeerConfigs, n \in BOOLEAN :
          /\ work_urls = InstanceUrls(p, n)
          /\ client = FirstInstance(p, n)
    /\ work_failure = 0
    /\ calls = [c \in Callers |-> IdleCall]

\* Lines 42-55: the request and one make_request coroutine per peer.
WorkGenerateStart(c, h, d) ==
    /\ calls[c].pc \in {"idle", "returned", "raised"}
    /\ calls' = [calls EXCEPT ![c] =
           [IdleCall EXCEPT
              !.pc = "check",
              !.hash = h,
              !.difficulty = IF d = NoDifficulty THEN DefaultDifficulty ELSE d,
              !.status = [t \in TaskIds |-> IF t = LocalTask THEN "absent" ELSE "pending"],
              !.result = [t \in TaskIds |-> Unbound]]]
    /\ UNCHANGED <<work_urls, work_failure, client, serverVars>>

\* Lines 58-61: the flag is read; the local generator joins the race or not.
WorkGenerateCheck(c) ==
    /\ calls[c].pc = "check"
    /\ LET local == SpawnLocal(work_failure # 0, work_urls)
           st == [calls[c].status EXCEPT ![LocalTask] = IF local THEN "pending" ELSE "absent"]
       IN calls' = [calls EXCEPT ![c] =
              [@ EXCEPT !.status = st,
                        !.flagAtCheck = (work_failure # 0),
                        !.pc = IF \E t \in TaskIds : st[t] = "pending"
                               THEN "wait" ELSE "setflag"]]
    /\ UNCHANGED <<work_urls, work_failure, client, serverVars>>

TaskResults(c, t) ==
    IF t = LocalTask THEN LocalResults(calls[c].hash, calls[c].difficulty)
    ELSE PeerResults

\* A task of the race completes on the event loop (make_request, lines 38-40, or
\* the local generator).  Nothing cancels the tasks of a call that has returned
\* or raised: they complete too, and nobody reads their result.
TaskComplete(c, t, r) ==
    /\ calls[c].pc \in {"wait", "returned", "raised"}
    /\ t \in DOMAIN calls[c].status
    /\ calls[c].status[t] = "pending"
    /\ r \in TaskResults(c, t)
    /\ LET first == IF calls[c].firstWork = NoWork /\ r.kind \in {"work", "str"}
                    THEN r.work ELSE calls[c].firstWork
       IN IF calls[c].pc = "wait"
          THEN calls' = [calls EXCEPT ![c] =
                 [@ EXCEPT !.status[t] = "completed", !.result[t] = r, !.firstWork = first]]
          ELSE calls' = [calls EXCEPT ![c] =
                 [@ EXCEPT !.status[t] = "unread", !.firstWork = first]]
    /\ UNCHANGED <<work_urls, work_failure, client, serverVars>>

\* Line 87: the except branch calls result.cancel().  result is the value bound
\* by an earlier iteration (a dict or None) or is not bound at all; none of these
\* has a cancel method, so the branch itself raises.
HasCancel(result) == result.kind \notin {"unbound", "none", "work", "str", "error", "other", "exc"}

\* Lines 66-87: the for loop over the done set, in the order the set yields.
RECURSIVE HandleDone(_, _, _, _)
HandleDone(order, results, i, result) ==
    IF i > Len(order) THEN [kind |-> "continue", work |-> NoWork]
    ELSE LET r == results[order[i]] IN
         IF r.kind = "exc"
         THEN IF HasCancel(result)
              THEN HandleDone(order, results, i + 1, result)
              ELSE [kind |-> "raise", work |-> NoWork]
         ELSE IF r.kind = "none"
         THEN HandleDone(order, results, i + 1, r)
         ELSE IF r.kind \in {"work", "str"}
         THEN [kind |-> "return", work |-> r.work]
         ELSE HandleDone(order, results, i + 1, r)

\* The orders in which a set can be iterated.
Orders(S) ==
    {s \in [1..Cardinality(S) -> S] : \A i, j \in 1..Cardinality(S) : i # j => s[i] # s[j]}

\* Lines 75-81: one work_cancel per entry of work_urls, each a future nobody awaits.
CancelRequests(c) ==
    [i \in 1..Len(work_urls) |-> [url |-> work_urls[i], hash |-> calls[c].hash]]

\* Lines 64-87: asyncio.wait returns the tasks that are done (none after the
\* 30 s timeout) and the loop handles them.
WaitReturn(c) ==
    /\ calls[c].pc = "wait"
    /\ LET done == {t \in DOMAIN calls[c].status : calls[c].status[t] = "completed"}
           pending == {t \in DOMAIN calls[c].status : calls[c].status[t] = "pending"}
           seen == [t \in DOMAIN calls[c].status |->
                       IF t \in done THEN "handled" ELSE calls[c].status[t]]
           cleared == [t \in DOMAIN calls[c].status |-> Unbound]
       IN IF done = {}
          THEN \* timeout: nothing completed within the round
               /\ pending # {}
               /\ calls[c].rounds < MaxRounds
               /\ calls' = [calls EXCEPT ![c] = [@ EXCEPT !.rounds = @ + 1]]
          ELSE \E order \in Orders(done) :
               LET out == HandleDone(order, calls[c].result, 1, Unbound) IN
               calls' = [calls EXCEPT ![c] =
                   [@ EXCEPT
                      !.status = seen,
                      !.result = cleared,
                      !.ret = out.work,
                      !.cancels = IF out.kind = "return" THEN CancelRequests(c) ELSE @,
                      !.pc = CASE out.kind = "return" -> "returned"
                               [] out.kind = "raise" -> "raised"
                               [] OTHER -> IF pending = {} THEN "setflag" ELSE "wait"]]
    /\ UNCHANGED <<work_urls, work_failure, client, serverVars>>

\* Line 90: every request failed; the failure flag is stored with its TTL.
SetFailure(c) ==
    /\ calls[c].pc = "setflag"
    /\ work_failure' = FailureTtl
    /\ calls' = [calls EXCEPT ![c] = [@ EXCEPT !.pc = "final", !.setFailure = FailureTtl]]
    /\ UNCHANGED <<work_urls, client, serverVars>>

\* Line 91: the final local generation, awaited without a timeout.
FinalLocal(c, w) ==
    /\ calls[c].pc = "final"
    /\ w \in LocalWorks(calls[c].hash, calls[c].difficulty)
    /\ calls' = [calls EXCEPT ![c] = [@ EXCEPT !.pc = "returned", !.ret = w, !.viaFinal = TRUE]]
    /\ UNCHANGED <<work_urls, work_failure, client, serverVars>>

\* The shared store drops the flag when its TTL runs out.
ExpireFailure ==
    /\ work_failure # 0
    /\ work_failure' = 0
    /\ UNCHANGED <<work_urls, calls, client, serverVars>>

NextWork ==
    \/ \E c \in Callers, h \in Roots, d \in Difficulties : WorkGenerateStart(c, h, d)
    \/ \E c \in Callers : WorkGenerateCheck(c)
    \/ \E c \in Callers, t \in TaskIds, r \in PeerResults : TaskComplete(c, t, r)
    \/ \E c \in Callers : WaitReturn(c)
    \/ \E c \in Callers : SetFailure(c)
    \/ \E c \in Callers, w \in Works : FinalLocal(c, w)
    \/ ExpireFailure

(***************************************************************************)
(* Wallet server: data                                                     *)
(***************************************************************************)

\* Client connections whose requests the event loop interleaves.
Clients == {"c1", "c2"}

\* Wallet ids the store can hand out (random UUIDs), and an id no wallet has.
WalletIds == {"w1"}
UnknownWallet == "w0"

Seeds == {1}
Passphrases == {"hunter2", "other"}
Representatives == {"repA"}
NoRep == "none"
SendIds == {"abc"}
NoId == "none"

\* A wallet derives at most MaxIndex deterministic accounts in the model.
MaxIndex == 3
\* A chain grows to at most MaxHeight blocks, a balance to at most MaxBalance raw.
MaxHeight == 3
\* The gateway dispatches at most MaxRequests requests in a run of the model.
MaxRequests == 4
MaxBalance == 2

\* derive_private(seed, index) and address(public_of(priv)), abstracted to
\* injective arithmetic.
derive_private(seed, index) == seed * 10 + index
address_of(priv) == 100 + priv
DerivedAddress(seed, index) == address_of(derive_private(seed, index))

\* The private key a client hands to wallet_add; the seed derives it at index 1.
AdhocKeys == {derive_private(1, 1)}

Addresses ==
    {DerivedAddress(s, i) : s \in Seeds, i \in 0..(MaxIndex - 1)}
        \cup {address_of(k) : k \in AdhocKeys}
NoAddress == 0
Adhoc == -1

\* Secret encryption: a ciphertext opens only with the passphrase it was made with.
Plain(seed) == [enc |-> FALSE, pass |-> "", seed |-> seed]
Encrypt(seed, pass) == [enc |-> TRUE, pass |-> pass, seed |-> seed]
CanDecrypt(secret, pass) == secret.enc /\ secret.pass = pass

NoWallet ==
    [exists |-> FALSE, seed |-> Plain(0), encrypted |-> FALSE, held |-> 0,
     representative |-> NoRep, deterministic_index |-> 0]

\* Responses: a JSON error, a JSON result, or an exception that leaves the handler.
Err(m) == [kind |-> "error", msg |-> m, nums |-> << >>]
Ok(k, m, n) == [kind |-> k, msg |-> m, nums |-> n]
Unhandled(e) == [kind |-> "exception", msg |-> e, nums |-> << >>]
NoResp == [kind |-> "none", msg |-> "", nums |-> << >>]
generic_error == Err("Unable to parse json")

IdleReq ==
    [op |-> "none", pc |-> "idle", wallet |-> UnknownWallet, account |-> NoAddress,
     sid |-> NoId, rep |-> NoRep, rep0 |-> NoRep, update |-> FALSE,
     key |-> 0, count |-> 0, cursor |-> 0,
     prev |-> 0, bal |-> 0, amt |-> 0, newbal |-> 0, idx0 |-> 0,
     pass |-> "", resp |-> NoResp, routed |-> NoResp,
     \* rep0 is the wallet's default representative when the handler looked the
     \* wallet up, update the request's update_existing_accounts;
     \* history of the request, for the properties: its fields were all present
     \* and valid, the wallet was locked when the handler looked it up, work was
     \* requested from the work client, a block was published
     wellformed |-> FALSE, locked0 |-> FALSE, workReq |-> FALSE, published |-> FALSE]

(***************************************************************************)
(* Wallet store (db/models/wallet.py), as section 4.7 of the design states *)
(***************************************************************************)

\* A wallet is locked when its seed is stored encrypted and no unlocked seed is
\* held for it in the process-local table.
LockedRecord(wallet) == wallet.exists /\ wallet.encrypted /\ wallet.held = 0
Locked(w) == LockedRecord(wallets[w])

\* Wallet.get_wallet: WalletNotFound, WalletLocked (carrying the record), or the wallet.
get_wallet(w) ==
    IF w \notin WalletIds \/ ~wallets[w].exists THEN "missing"
    ELSE IF Locked(w) THEN "locked"
    ELSE "ok"

\* The seed an unlocked wallet derives keys from.
WalletSeed(w) == IF wallets[w].encrypted THEN wallets[w].held ELSE wallets[w].seed.seed

AccountRow(addr, index, key) ==
    [address |-> addr, index |-> index, key |-> key, representative |-> NoRep]

WalletAddresses(w) == {accounts[w][i].address : i \in 1..Len(accounts[w])}

\* Wallet.account_create inside the handler's transaction: the next index is
\* selected under the transaction's lock on the wallet row.
NextIndexStale(c, w) == req[c].idx0
NextIndex(c, w) == wallets[w].deterministic_index

\* The rows the store holds after deriving n more accounts from index first.
RECURSIVE DeriveRows(_, _, _, _)
DeriveRows(rows, seed, first, n) ==
    IF n = 0 THEN rows
    ELSE DeriveRows(Append(rows, AccountRow(DerivedAddress(seed, first), first, 0)),
                    seed, first + 1, n - 1)

\* Wallet.encrypt_wallet: the seed is stored under the new passphrase and the
\* unlocked seed is dropped, which leaves the wallet locked.
encrypt_wallet(w, pass) ==
    [wallets[w] EXCEPT !.seed = Encrypt(WalletSeed(w), pass),
                       !.encrypted = TRUE,
                       !.held = 0]

\* Wallet.unlock_wallet: the decrypted seed is held until the next lock.
unlock_wallet(w) == [wallets[w] EXCEPT !.held = wallets[w].seed.seed]

\* Wallet.lock_wallet: the held seed is dropped; nothing changes in the data of
\* a wallet that was never encrypted.
lock_wallet(w) == [wallets[w] EXCEPT !.held = 0]

InitStore ==
    /\ wallets = [w \in WalletIds |-> NoWallet]
    /\ accounts = [w \in WalletIds |-> << >>]
    /\ blocks = {}
    \* the ledger holds opened, funded chains for the seed's first two accounts
    /\ node = [a \in Addresses |->
                  IF a \in {DerivedAddress(s, i) : s \in Seeds, i \in 0..1}
                  THEN [height |-> 1, balance |-> 1]
                  ELSE [height |-> 0, balance |-> 0]]
    /\ locks = [a \in Addresses |-> "free"]
    /\ req = [c \in Clients |-> IdleReq]
    /\ last = IdleReq
    /\ started = 0

(***************************************************************************)
(* RPC handlers (server/pippin_server.py)                                  *)
(***************************************************************************)

\* The answer of handler op, with the history the properties read.
Done(op, w, r, wf, lk) ==
    [IdleReq EXCEPT !.op = op, !.pc = "done", !.wallet = w, !.resp = r,
                    !.wellformed = wf, !.locked0 = lk]

\* The server takes its next step once the last answer has gone out.
Quiet == last.pc = "idle"

\* A handler returns: its response is the last answer.
Answer(r) == Quiet /\ last' = r

\* The last answer is written to the client's connection.
Deliver ==
    /\ last.pc = "done"
    /\ last' = IdleReq
    /\ UNCHANGED <<wallets, accounts, blocks, node, locks, req, started, workVars, main>>

\* Lines 46-96: the gateway dispatches a request to its handler.
Accept == started < MaxRequests /\ started' = started + 1

\* What a handler does with the outcome of Wallet.get_wallet: the error it
\* answers with, or NoResp to go on.  wallet_lock and password_enter take the
\* record the WalletLocked exception carries; password_enter refuses an open
\* wallet.
OnLookupIgnoringLock(op, look) ==
    IF look = "missing" THEN Err("wallet not found") ELSE NoResp
OnLookup(op, look) ==
    CASE look = "missing" -> Err("wallet not found")
      [] look = "locked" ->
            (CASE op \in {"wallet_lock", "password_enter"} -> NoResp
               [] op = "password_valid" -> Ok("valid", "0", << >>)
               [] op = "wallet_locked" -> Ok("locked", "1", << >>)
               [] OTHER -> Err("wallet locked"))
      [] OTHER ->
            (CASE op = "password_enter" -> Err("wallet not locked")
               [] op = "wallet_locked" -> Ok("locked", "0", << >>)
               [] OTHER -> NoResp)

\* async with in_transaction(): what the block wrote is kept when it commits
\* and dropped when an exception leaves it.
InTransactionNoRollback(commit, after, before) == after
InTransaction(commit, after, before) == IF commit THEN after ELSE before

\* The exception of a database call that fails.
DbFailure == Unhandled("OperationalError")

\* Lines 98-118: wallet_create.  seedArg is the request's seed: absent, not 64
\* hex characters, or a seed; commit is false when a call inside the
\* transaction fails.
wallet_create(seedArg, w, seed, commit) ==
    /\ Accept
    /\ IF seedArg = "bad"
       THEN /\ Answer(Done("wallet_create", UnknownWallet, Err("Invalid seed"), FALSE, FALSE))
            /\ UNCHANGED <<wallets, accounts>>
       ELSE /\ ~wallets[w].exists
            /\ wallets' = InTransaction(commit,
                   [wallets EXCEPT ![w] =
                       [NoWallet EXCEPT !.exists = TRUE, !.seed = Plain(seed),
                                        !.deterministic_index = 1]],
                   wallets)
            /\ accounts' = InTransaction(commit,
                   [accounts EXCEPT ![w] = DeriveRows(<< >>, seed, 0, 1)], accounts)
            /\ Answer(Done("wallet_create", w,
                           IF commit THEN Ok("wallet", w, << >>) ELSE DbFailure,
                           TRUE, FALSE))
    /\ UNCHANGED <<blocks, node, locks, req, workVars, main>>

\* The part every handler of a wallet verb starts with: the field checks, then
\* Wallet.get_wallet.  Answers an error, or leaves the request in flight at pc.
Begin(c, op, w, fields, pc, more) ==
    /\ req[c].pc = "idle"
    /\ Accept
    /\ LET look == get_wallet(w)
           r == IF fields = "missing" THEN generic_error
                ELSE IF fields # "ok" THEN Err(fields)
                ELSE OnLookup(op, look)
           lk == look = "locked"
       IN IF r # NoResp
          THEN /\ Answer(Done(op, w, r, fields = "ok", lk))
               /\ UNCHANGED req
          ELSE /\ Quiet
               /\ req' = [req EXCEPT ![c] =
                      [more EXCEPT !.op = op, !.pc = pc, !.wallet = w,
                                   !.wellformed = TRUE, !.locked0 = lk]]
               /\ UNCHANGED last

\* Lines 120-138: account_create up to the wallet lookup.
account_create_begin(c, w, fields) ==
    /\ Begin(c, "account_create", w, fields, "txn",
             [IdleReq EXCEPT !.idx0 = IF w \in WalletIds
                                      THEN wallets[w].deterministic_index ELSE 0])
    /\ UNCHANGED <<wallets, accounts, blocks, node, locks, workVars, main>>

\* Lines 140-147: the transaction that inserts the account.
account_create_txn(c) ==
    /\ req[c].op = "account_create" /\ req[c].pc = "txn"
    /\ LET w == req[c].wallet
           i == NextIndex(c, w)
           seed == wallets[w].seed.seed
       IN /\ i < MaxIndex
          /\ accounts' = [accounts EXCEPT ![w] = DeriveRows(@, seed, i, 1)]
          /\ wallets' = [wallets EXCEPT ![w].deterministic_index = i + 1]
          /\ Answer([Done("account_create", w,
                          Ok("account", "", <<DerivedAddress(seed, i)>>), TRUE, req[c].locked0)
                     EXCEPT !.idx0 = i])
    /\ req' = [req EXCEPT ![c] = IdleReq]
    /\ UNCHANGED <<blocks, node, locks, started, workVars, main>>

\* Lines 149-167: accounts_create up to the wallet lookup.
accounts_create_begin(c, w, fields, count) ==
    /\ Begin(c, "accounts_create", w, fields, "txn",
             [IdleReq EXCEPT !.count = count,
                             !.idx0 = IF w \in WalletIds
                                      THEN wallets[w].deterministic_index ELSE 0])
    /\ UNCHANGED <<wallets, accounts, blocks, node, locks, workVars, main>>

\* Lines 169-176: the transaction that inserts count accounts.
accounts_create_txn(c, commit) ==
    /\ req[c].op = "accounts_create" /\ req[c].pc = "txn"
    /\ LET w == req[c].wallet
           i == NextIndex(c, w)
           n == req[c].count
           seed == wallets[w].seed.seed
       IN /\ i + n <= MaxIndex
          /\ accounts' = InTransaction(commit,
                 [accounts EXCEPT ![w] = DeriveRows(@, seed, i, n)], accounts)
          /\ wallets' = InTransaction(commit,
                 [wallets EXCEPT ![w].deterministic_index = i + n], wallets)
          /\ Answer([Done("accounts_create", w,
                          IF commit
                          THEN Ok("accounts", "",
                                  [k \in 1..n |-> DerivedAddress(seed, i + k - 1)])
                          ELSE DbFailure,
                          TRUE, req[c].locked0)
                     EXCEPT !.idx0 = i, !.count = n])
    /\ req' = [req EXCEPT ![c] = IdleReq]
    /\ UNCHANGED <<blocks, node, locks, started, workVars, main>>

\* The first n elements of a sequence (all of it when it is shorter).
Limit(seq, n) == SubSeq(seq, 1, IF n < Len(seq) THEN n ELSE Len(seq))

\* Lines 178-204: account_list.  count is the request's count, 0 when absent.
\* Line 182 reads request_json['acount'] when count is present: a KeyError.
DefaultListCount == 1000
account_list(w, fields, count) ==
    /\ Accept
    /\ LET look == get_wallet(w)
           r == IF fields = "missing" THEN generic_error
                ELSE IF count # 0 THEN Unhandled("KeyError")
                ELSE IF OnLookup("account_list", look) # NoResp
                THEN OnLookup("account_list", look)
                ELSE Ok("accounts", "",
                        Limit([i \in 1..Len(accounts[w]) |-> accounts[w][i].address],
                              DefaultListCount))
       IN Answer([Done("account_list", w, r, fields = "ok", look = "locked")
                  EXCEPT !.count = count])
    /\ UNCHANGED <<wallets, accounts, blocks, node, locks, req, workVars, main>>

\* An atomic handler: field check, lookup, and one call on the wallet.
Atomic(op, w, fields, pass, okResp, update) ==
    /\ Accept
    /\ LET look == get_wallet(w)
           r == IF fields = "missing" THEN generic_error ELSE OnLookup(op, look)
       IN IF r # NoResp
          THEN /\ Answer([Done(op, w, r, fields = "ok", look = "locked") EXCEPT !.pass = pass])
               /\ UNCHANGED wallets
          ELSE /\ wallets' = [wallets EXCEPT ![w] = update]
               /\ Answer([Done(op, w, okResp, TRUE, look = "locked") EXCEPT !.pass = pass])
    /\ UNCHANGED <<accounts, blocks, node, locks, req, workVars, main>>

\* Lines 407-434: password_change.
password_change(w, fields, pass) ==
    Atomic("password_change", w, fields, pass, Ok("changed", "1", << >>),
           encrypt_wallet(w, pass))

\* Lines 436-468: password_enter; DecryptionError is answered with valid 0.
password_enter_unchecked(w, fields, pass) ==
    Atomic("password_enter", w, fields, pass, Ok("valid", "1", << >>), unlock_wallet(w))
password_enter(w, fields, pass) ==
    IF w \in WalletIds /\ CanDecrypt(wallets[w].seed, pass)
    THEN Atomic("password_enter", w, fields, pass, Ok("valid", "1", << >>), unlock_wallet(w))
    ELSE Atomic("password_enter", w, fields, pass, Ok("valid", "0", << >>), wallets[w])

\* Lines 470-498: password_valid.
password_valid_any(w, fields) ==
    Atomic("password_valid", w, fields, "", Ok("valid", "1", << >>), wallets[w])
password_valid(w, fields) ==
    IF w \in WalletIds /\ ~wallets[w].encrypted
    THEN Atomic("password_valid", w, fields, "", Err("wallet not locked"), wallets[w])
    ELSE Atomic("password_valid", w, fields, "", Ok("valid", "1", << >>), wallets[w])

\* Lines 578-599: wallet_lock.
wallet_lock(w, fields) ==
    Atomic("wallet_lock", w, fields, "", Ok("locked", "1", << >>), lock_wallet(w))

\* Lines 601-622: wallet_locked; both outcomes are answers of the lookup.
wallet_locked(w, fields) ==
    Atomic("wallet_locked", w, fields, "", Ok("locked", "0", << >>), wallets[w])

RequestWallets == WalletIds \cup {UnknownWallet}
FieldCases == {"ok", "missing"}

NextWallet ==
    \/ \E a \in {"none", "bad", "seed"}, w \in WalletIds, s \in Seeds, k \in BOOLEAN :
          wallet_create(a, w, s, k)
    \/ \E c \in Clients, w \in RequestWallets, f \in FieldCases : account_create_begin(c, w, f)
    \/ \E c \in Clients : account_create_txn(c)
    \/ \E c \in Clients, w \in RequestWallets, f \in FieldCases, n \in 1..2 :
          accounts_create_begin(c, w, f, n)
    \/ \E c \in Clients, k \in BOOLEAN : accounts_create_txn(c, k)
    \/ \E w \in RequestWallets, f \in FieldCases, n \in 0..1 : account_list(w, f, n)
    \/ \E w \in RequestWallets, f \in FieldCases, p \in Passphrases : password_change(w, f, p)
    \/ \E w \in RequestWallets, f \in FieldCases, p \in Passphrases : password_enter(w, f, p)
    \/ \E w \in RequestWallets, f \in FieldCases : password_valid(w, f)
    \/ \E w \in RequestWallets, f \in FieldCases : wallet_lock(w, f)
    \/ \E w \in RequestWallets, f \in FieldCases : wallet_locked(w, f)
    \/ Deliver

(***************************************************************************)
(* Block pipeline (util/wallet.py), as section 4.8 of the design states,   *)
(* and the handlers that run it                                            *)
(***************************************************************************)

Amounts == 1..MaxBalance

\* The hash of the block at a height of an account's chain.
BlockHash(addr, height) == <<addr, height>>

BlockRow(w, addr, height, subtype, sid) ==
    [wallet |-> w, address |-> addr, height |-> height, subtype |-> subtype, send_id |-> sid]

\* Block rows of wallet w that carry send id sid.
SendRows(w, sid) == {b \in blocks : b.wallet = w /\ b.send_id = sid}

\* The per-account lock of the pipeline, keyed by the account's address.
LockFreeAlways(addr) == TRUE
LockFree(addr) == locks[addr] = "free"

\* The except clauses of the handlers: the error each answers an exception of
\* the pipeline with (send lines 313-332, receive 248-259,
\* account_representative_set 385-396; wallet_representative_set has none).
HandlerErrorSendNoBalance(op, exc) ==
    IF exc \in {"AccountNotFound", "InsufficientBalance"} THEN Err("Account not found")
    ELSE Unhandled(exc)
HandlerError(op, exc) ==
    CASE exc = "AccountNotFound" /\ op \in {"send", "account_representative_set"}
            -> Err("Account not found")
      [] exc = "BlockNotFound" /\ op \in {"send", "receive"} -> Err("Block not found")
      [] exc = "WorkFailed" /\ op \in {"send", "receive", "account_representative_set"}
            -> Err("Failed to generate work")
      [] exc = "ProcessFailed" /\ op \in {"send", "receive", "account_representative_set"}
            -> Err("RPC Process failed")
      [] exc = "InsufficientBalance" /\ op = "send" -> Err("insufficient balance")
      [] OTHER -> Unhandled(exc)

\* The handler's start for a verb that works on one account of the wallet: the
\* field checks, Wallet.get_wallet, then wallet.get_account.
PipeBegin(c, op, w, fields, addr, sid) ==
    /\ req[c].pc = "idle"
    /\ Accept
    /\ LET look == get_wallet(w)
           r == IF fields = "missing" THEN generic_error
                ELSE IF fields # "ok" THEN Err(fields)
                ELSE IF OnLookup(op, look) # NoResp THEN OnLookup(op, look)
                ELSE IF addr \notin WalletAddresses(w) THEN Err("Account not found")
                ELSE NoResp
           lk == look = "locked"
       IN IF r # NoResp
          THEN /\ Answer(Done(op, w, r, fields = "ok", lk))
               /\ UNCHANGED req
          ELSE /\ Quiet
               /\ req' = [req EXCEPT ![c] =
                      [IdleReq EXCEPT !.op = op, !.pc = "lock", !.wallet = w,
                                      !.account = addr, !.sid = sid,
                                      !.wellformed = TRUE, !.locked0 = lk]]
               /\ UNCHANGED last
    /\ UNCHANGED <<wallets, accounts, blocks, node, locks, workVars, main>>

\* Lines 270-307: send.
send_begin(c, w, fields, source, sid) == PipeBegin(c, "send", w, fields, source, sid)

\* Lines 206-242: receive.
receive_begin(c, w, fields, account) == PipeBegin(c, "receive", w, fields, account, NoId)

\* Lines 343-379: account_representative_set.
account_representative_set_begin(c, w, fields, account) ==
    PipeBegin(c, "account_representative_set", w, fields, account, NoId)

\* An exception leaves the pipeline: the lock is released and the handler
\* answers with its error for it.
Raise(c, exc, workReq) ==
    /\ Answer([Done(req[c].op, req[c].wallet, HandlerError(req[c].op, exc),
                    TRUE, req[c].locked0)
               EXCEPT !.account = req[c].account, !.sid = req[c].sid,
                      !.rep = req[c].rep, !.rep0 = req[c].rep0,
                      !.update = req[c].update, !.count = req[c].count,
                      !.workReq = workReq])
    /\ req' = [req EXCEPT ![c] = IdleReq]

\* The work for a block: the caller's (verified), or the work client's.
WorkOutcomes == {"given", "given_invalid", "generated", "failed"}

\* The pipeline under the account's lock, up to the signed block: the replay
\* check for a send id, the frontier and balance from the node, the amounts and
\* the work.
Build(c, amt, found, work) ==
    /\ req[c].pc = "lock"
    /\ LET a == req[c].account
           w == req[c].wallet
           op == req[c].op
           height == node[a].height
           bal == node[a].balance
           workReq == work \in {"generated", "failed"}
           newbal == CASE op = "send" -> bal - amt
                       [] op = "receive" -> bal + 1
                       [] OTHER -> bal
       IN /\ LockFree(a)
          /\ op = "wallet_representative_set" => workReq
          /\ IF op = "send" /\ req[c].sid # NoId /\ SendRows(w, req[c].sid) # {}
             THEN /\ \E b \in SendRows(w, req[c].sid) :
                        Answer([Done(op, w, Ok("block", "", BlockHash(b.address, b.height)),
                                     TRUE, req[c].locked0)
                                EXCEPT !.account = a, !.sid = req[c].sid])
                  /\ req' = [req EXCEPT ![c] = IdleReq]
                  /\ UNCHANGED locks
             ELSE IF op = "receive" /\ ~found
             THEN Raise(c, "BlockNotFound", FALSE) /\ UNCHANGED locks
             ELSE IF op # "receive" /\ height = 0
             THEN Raise(c, "AccountNotFound", FALSE) /\ UNCHANGED locks
             ELSE IF op = "send" /\ bal < amt
             THEN /\ Answer([Done(op, w, HandlerError(op, "InsufficientBalance"),
                                  TRUE, req[c].locked0)
                             EXCEPT !.account = a, !.sid = req[c].sid,
                                    !.amt = amt, !.bal = bal])
                  /\ req' = [req EXCEPT ![c] = IdleReq]
                  /\ UNCHANGED locks
             ELSE IF work \in {"given_invalid", "failed"}
             THEN Raise(c, "WorkFailed", workReq) /\ UNCHANGED locks
             ELSE /\ Quiet
                  /\ locks' = [locks EXCEPT ![a] = c]
                  /\ req' = [req EXCEPT ![c] =
                         [@ EXCEPT !.pc = "publish", !.prev = height, !.bal = bal,
                                   !.amt = IF op = "send" THEN amt ELSE 0,
                                   !.newbal = newbal, !.workReq = workReq]]
                  /\ UNCHANGED last
    /\ UNCHANGED <<wallets, accounts, blocks, node, started, workVars, main>>

Subtype(op, prev) ==
    CASE op = "send" -> "send"
      [] op = "receive" -> IF prev = 0 THEN "open" ELSE "receive"
      [] OTHER -> "change"

\* process(block): the node takes a block that extends the account's frontier.
NodeAccepts(addr, prev, newbal) ==
    /\ node[addr].height = prev
    /\ prev < MaxHeight
    /\ newbal <= MaxBalance

\* The signed block is published and its row stored; the lock is released.
Publish(c, accepted) ==
    /\ req[c].pc = "publish"
    /\ LET a == req[c].account
           w == req[c].wallet
           op == req[c].op
           h == req[c].prev + 1
           ok == accepted /\ NodeAccepts(a, req[c].prev, req[c].newbal)
           bulk == op = "wallet_representative_set"
       IN /\ locks' = [locks EXCEPT ![a] = "free"]
          /\ IF ok
             THEN /\ node' = [node EXCEPT ![a] = [height |-> h, balance |-> req[c].newbal]]
                  /\ blocks' = blocks \cup
                        {BlockRow(w, a, h, Subtype(op, req[c].prev), req[c].sid)}
                  /\ IF bulk
                     THEN /\ Quiet
                          /\ req' = [req EXCEPT ![c] =
                                 [@ EXCEPT !.pc = "bulk", !.cursor = @ + 1,
                                           !.account = NoAddress, !.prev = 0, !.bal = 0,
                                           !.newbal = 0, !.published = TRUE]]
                          /\ UNCHANGED last
                     ELSE /\ Answer([Done(op, w, Ok("block", "", BlockHash(a, h)),
                                          TRUE, req[c].locked0)
                                     EXCEPT !.account = a, !.sid = req[c].sid,
                                            !.amt = req[c].amt, !.bal = req[c].bal,
                                            !.workReq = req[c].workReq,
                                            !.published = TRUE])
                          /\ req' = [req EXCEPT ![c] = IdleReq]
             ELSE /\ Raise(c, "ProcessFailed", req[c].workReq)
                  /\ UNCHANGED <<node, blocks>>
    /\ UNCHANGED <<wallets, accounts, started, workVars, main>>

\* Lines 500-537: wallet_representative_set: the default is saved, then the bulk
\* update runs when update_existing_accounts is true.
wallet_representative_set_begin(c, w, fields, rep, update) ==
    /\ req[c].pc = "idle"
    /\ Accept
    /\ LET look == get_wallet(w)
           r == IF fields = "missing" THEN generic_error
                ELSE IF fields # "ok" THEN Err(fields)
                ELSE OnLookup("wallet_representative_set", look)
           lk == look = "locked"
       IN IF r # NoResp
          THEN /\ Answer(Done("wallet_representative_set", w, r, fields = "ok", lk))
               /\ UNCHANGED <<req, wallets>>
          ELSE /\ wallets' = [wallets EXCEPT ![w].representative = rep]
               /\ IF update
                  THEN /\ Quiet
                       /\ req' = [req EXCEPT ![c] =
                              [IdleReq EXCEPT !.op = "wallet_representative_set",
                                              !.pc = "bulk", !.wallet = w, !.rep = rep,
                                              !.rep0 = wallets[w].representative,
                                              !.update = TRUE,
                                              !.cursor = 1, !.count = Len(accounts[w]),
                                              !.wellformed = TRUE]]
                       /\ UNCHANGED last
                  ELSE /\ Answer([Done("wallet_representative_set", w,
                                       Ok("set", "1", << >>), TRUE, FALSE)
                                  EXCEPT !.rep = rep,
                                         !.rep0 = wallets[w].representative])
                       /\ UNCHANGED req
    /\ UNCHANGED <<accounts, blocks, node, locks, workVars, main>>

\* Wallet.bulk_representative_update: each account's override is set, and a
\* change block goes through the pipeline for an account whose representative
\* on the ledger differs.
bulk_representative_update(c, differs) ==
    /\ req[c].op = "wallet_representative_set" /\ req[c].pc = "bulk"
    /\ LET w == req[c].wallet
           i == req[c].cursor
       IN IF i > req[c].count
          THEN /\ Answer([Done("wallet_representative_set", w, Ok("set", "1", << >>),
                               TRUE, FALSE)
                          EXCEPT !.rep = req[c].rep, !.rep0 = req[c].rep0,
                                 !.update = TRUE, !.count = req[c].count,
                                 !.published = req[c].published])
               /\ req' = [req EXCEPT ![c] = IdleReq]
               /\ UNCHANGED accounts
          ELSE /\ Quiet
               /\ accounts' = [accounts EXCEPT ![w][i].representative = req[c].rep]
               /\ req' = [req EXCEPT ![c] =
                      IF differs /\ node[accounts[w][i].address].height > 0
                      THEN [@ EXCEPT !.pc = "lock", !.account = accounts[w][i].address]
                      ELSE [@ EXCEPT !.cursor = i + 1]]
               /\ UNCHANGED last
    /\ UNCHANGED <<wallets, blocks, node, locks, started, workVars, main>>

\* Lines 539-562: wallet_add up to the wallet lookup.
wallet_add_begin(c, w, fields, key) ==
    /\ Begin(c, "wallet_add", w, fields, "add", [IdleReq EXCEPT !.key = key])
    /\ UNCHANGED <<wallets, accounts, blocks, node, locks, workVars, main>>

\* Lines 564-576: Wallet.adhoc_account_create and the answer.
wallet_add_insert(c) ==
    /\ req[c].op = "wallet_add" /\ req[c].pc = "add"
    /\ LET w == req[c].wallet
           addr == address_of(req[c].key)
       IN IF addr \in WalletAddresses(w)
          THEN /\ Answer([Done("wallet_add", w, Err("account already exists"), TRUE,
                               req[c].locked0) EXCEPT !.key = req[c].key])
               /\ UNCHANGED accounts
          ELSE /\ accounts' = [accounts EXCEPT ![w] =
                      Append(@, AccountRow(addr, Adhoc, req[c].key))]
               /\ Answer([Done("wallet_add", w, Ok("account", "", <<addr>>), TRUE,
                               req[c].locked0) EXCEPT !.key = req[c].key])
    /\ req' = [req EXCEPT ![c] = IdleReq]
    /\ UNCHANGED <<wallets, blocks, node, locks, started, workVars, main>>

NextPipeline ==
    \/ \E c \in Clients, w \in RequestWallets, a \in Addresses, i \in SendIds \cup {NoId},
          f \in {"ok", "missing", "Invalid source", "Invalid destination"} :
          send_begin(c, w, f, a, i)
    \/ \E c \in Clients, w \in RequestWallets, a \in Addresses,
          f \in {"ok", "missing", "Invalid address", "Invalid block"} :
          receive_begin(c, w, f, a)
    \/ \E c \in Clients, w \in RequestWallets, a \in Addresses,
          f \in {"ok", "missing", "Invalid account", "Invalid representative"} :
          account_representative_set_begin(c, w, f, a)
    \/ \E c \in Clients, m \in Amounts, f \in BOOLEAN, k \in WorkOutcomes : Build(c, m, f, k)
    \/ \E c \in Clients, ok \in BOOLEAN : Publish(c, ok)
    \/ \E c \in Clients, w \in RequestWallets, r \in Representatives, u \in BOOLEAN,
          f \in {"ok", "missing", "Invalid address"} :
          wallet_representative_set_begin(c, w, f, r, u)
    \/ \E c \in Clients, d \in BOOLEAN : bulk_representative_update(c, d)
    \/ \E c \in Clients, w \in RequestWallets, k \in AdhocKeys,
          f \in {"ok", "missing", "Invalid key"} :
          wallet_add_begin(c, w, f, k)
    \/ \E c \in Clients : wallet_add_insert(c)

(***************************************************************************)
(* Gateway (server/pippin_server.py, lines 46-96)                          *)
(***************************************************************************)

\* Lines 54-79: the verbs the gateway hands to a handler.
ImplementedVerbs ==
    {"wallet_create", "account_create", "accounts_create", "account_list", "receive",
     "send", "account_representative_set", "password_change", "password_enter",
     "password_valid", "wallet_representative_set", "wallet_add", "wallet_lock",
     "wallet_locked"}

\* Line 80: the wallet verbs of the node that the server does not implement.
UnimplementedVerbs ==
    {"account_move", "account_remove", "receive_minimum", "receive_minimum_set",
     "search_pending", "search_pending_all", "wallet_add_watch", "wallet_balances",
     "wallet_change_seed", "wallet_contains", "wallet_destroy", "wallet_export",
     "wallet_frontiers", "wallet_history", "wallet_info", "wallet_ledger",
     "wallet_pending", "wallet_representative", "wallet_republish", "wallet_work_get",
     "work_get", "work_set"}

\* Verbs of the node that are no wallet verbs.
NodeVerbs == {"block_count", "account_balance"}

\* An action string: a verb in lower case, possibly written in upper case and
\* possibly with blanks around it.
ActionString(verb, upper, padded) == [verb |-> verb, upper |-> upper, padded |-> padded]
ActionStrings ==
    {ActionString(v, u, p) :
        v \in ImplementedVerbs \cup UnimplementedVerbs \cup NodeVerbs,
        u \in BOOLEAN, p \in BOOLEAN}

\* str.lower() and str.strip().
lower(a) == [a EXCEPT !.upper = FALSE]
strip(a) == [a EXCEPT !.padded = FALSE]

\* action == 'verb' for one of the verbs of a list.
IsVerbOf(a, verbs) == ~a.upper /\ ~a.padded /\ a.verb \in verbs

\* Request bodies: text that is no JSON, a JSON object without an action, or a
\* JSON object with an action string (its other fields do not matter here).
NoAction == ActionString("", FALSE, FALSE)
Malformed == [json |-> FALSE, hasAction |-> FALSE, action |-> NoAction]
WithoutAction == [json |-> TRUE, hasAction |-> FALSE, action |-> NoAction]
WithAction(a) == [json |-> TRUE, hasAction |-> TRUE, action |-> a]
Bodies == {Malformed, WithoutAction} \cup {WithAction(a) : a \in ActionStrings}

\* What the upstream node answers a proxied request with.
NodeResponses == {"count", "node error"}

\* Line 51: the action of the request object is replaced by its sanitised form.
Sanitize(body) == [body EXCEPT !.action = strip(lower(body.action))]

\* Line 48: request.json() raises on a body that is no JSON; no except clause
\* catches it.
ParseFailure(body) == Unhandled("JSONDecodeError")

\* Lines 80-86: the answer to an unimplemented wallet verb.
NotImplementedForwarded(body) == FALSE
NotImplemented(body) == IsVerbOf(Sanitize(body).action, UnimplementedVerbs)

\* The gateway's answer with what it did: the body it received, the requests
\* it made to the node, and whether it called a handler.
Routed(body, resp, sent, handled, nodeResp) ==
    [body |-> body, resp |-> resp, sent |-> sent, handled |-> handled,
     nodeResp |-> nodeResp]

\* Lines 46-96: the gateway on a request body, the node answering nodeResp if
\* the request is proxied.  A handler's own steps are the actions above.
Route(body, nodeResp) ==
    IF ~body.json THEN Routed(body, ParseFailure(body), << >>, FALSE, "")
    ELSE IF ~body.hasAction THEN Routed(body, generic_error, << >>, FALSE, "")
    ELSE IF IsVerbOf(Sanitize(body).action, ImplementedVerbs)
    THEN Routed(body, NoResp, << >>, TRUE, "")
    ELSE IF NotImplemented(body)
    THEN Routed(body, Err("not_implemented"), << >>, FALSE, "")
    ELSE Routed(body, Ok("node", nodeResp, << >>), <<Sanitize(body)>>, FALSE, nodeResp)

\* The gateway answers a request that no handler takes, or hands it to a handler.
gateway(body, nodeResp) ==
    /\ Accept
    /\ Answer([Done("gateway", UnknownWallet, Route(body, nodeResp).resp, body.json, FALSE)
               EXCEPT !.routed = Route(body, nodeResp)])
    /\ UNCHANGED <<wallets, accounts, blocks, node, locks, req, workVars, main>>

NextGateway ==
    \/ \E b \in Bodies, n \in NodeResponses : gateway(b, n)
    \/ Deliver

(***************************************************************************)
(* Main routine (main.py, lines 40-63)                                     *)
(***************************************************************************)

\* Line 57-61: the coroutines of the shutdown sequence.
ShutdownTasks == {"RPCClient.close", "server.stop", "RedisDB.close"}

\* The main routine at a place of its code: whether the name server is bound,
\* how the try block was left, the state of each shutdown coroutine, whether
\* the event loop is closed, and the exception that left the routine.
MainAt(pc) ==
    [pc |-> pc, server |-> FALSE, left |-> [at |-> "none", by |-> "none"],
     tasks |-> [t \in ShutdownTasks |-> "none"], loopClosed |-> FALSE,
     raised |-> "none"]

\* The server is up: the routine is inside loop.run_forever().
MainRunning == [MainAt("run_forever") EXCEPT !.server = TRUE]

\* How a step of the try block ends: it returns, raises an Exception, or is
\* interrupted by a BaseException (KeyboardInterrupt, SystemExit).
StepOutcomes == {"ok", "Exception", "BaseException"}

\* Lines 42-54: a step of the try block; either except clause swallows what
\* was raised, and the finally block runs.
TryStep(at, outcome, next, binds) ==
    /\ main.pc = at
    /\ main' = IF outcome = "ok"
               THEN [main EXCEPT !.pc = next, !.server = @ \/ binds]
               ELSE [main EXCEPT !.pc = "finally", !.left = [at |-> at, by |-> outcome]]
    /\ UNCHANGED <<wallets, accounts, blocks, node, locks, req, last, started, workVars>>

\* Line 45: loop.run_until_complete(DBConfig().init_db()).
init_db(outcome) == TryStep("init_db", outcome, "construct", FALSE)

\* Line 47: server = PippinServer(config.host, config.port).
construct(outcome) == TryStep("construct", outcome, "start", TRUE)

\* Line 49: loop.run_until_complete(server.start()).
start(outcome) == TryStep("start", outcome, "run_forever", FALSE)

\* Line 50: loop.run_forever(), which returns when the loop is stopped.
run_forever(outcome) == TryStep("run_forever", outcome, "finally", FALSE)

\* Lines 57-61: the list of shutdown coroutines is built.  RPCClient.close()
\* is called first; evaluating server.stop() raises NameError when the name
\* server was never bound, which leaves the finally block.
BuildTasks ==
    IF main.server
    THEN [main EXCEPT !.pc = "wait", !.tasks = [t \in ShutdownTasks |-> "pending"]]
    ELSE [main EXCEPT !.pc = "exited", !.raised = "NameError",
                      !.tasks = [t \in ShutdownTasks |->
                                    IF t = "RPCClient.close" THEN "created" ELSE "none"]]

finally_tasks ==
    /\ main.pc = "finally"
    /\ main' = BuildTasks
    /\ UNCHANGED <<wallets, accounts, blocks, node, locks, req, last, started, workVars>>

\* Line 62: asyncio.wait runs the coroutines; one of them finishes, by
\* returning or by raising (asyncio.wait keeps the exception in the task).
task_done(t, outcome) ==
    /\ main.pc = "wait"
    /\ main.tasks[t] = "pending"
    /\ main' = [main EXCEPT !.tasks[t] = outcome]
    /\ UNCHANGED <<wallets, accounts, blocks, node, locks, req, last, started, workVars>>

\* Lines 62-63: asyncio.wait returns when every coroutine is done; loop.close().
loop_close ==
    /\ main.pc = "wait"
    /\ \A t \in ShutdownTasks : main.tasks[t] # "pending"
    /\ main' = [main EXCEPT !.pc = "exited", !.loopClosed = TRUE]
    /\ UNCHANGED <<wallets, accounts, blocks, node, locks, req, last, started, workVars>>

NextMain ==
    \/ \E o \in StepOutcomes : init_db(o)
    \/ \E o \in StepOutcomes : construct(o)
    \/ \E o \in StepOutcomes : start(o)
    \/ \E o \in StepOutcomes : run_forever(o)
    \/ finally_tasks
    \/ \E t \in ShutdownTasks, o \in {"done", "failed"} : task_done(t, o)
    \/ loop_close

InitMain ==
    /\ InitStore
    /\ work_urls = << >>
    /\ client = NoClient(<< >>, FALSE)
    /\ work_failure = 0
    /\ calls = [c \in Callers |-> IdleCall]
    /\ main = MainAt("init_db")

Next == NextWallet \/ NextPipeline

InitWork ==
    /\ InitWorkClient
    /\ InitStore
    /\ main = MainRunning

Init ==
    /\ InitStore
    /\ work_urls = << >>
    /\ client = NoClient(<< >>, FALSE)
    /\ work_failure = 0
    /\ calls = [c \in Callers |-> IdleCall]
    /\ main = MainRunning

Spec == Init /\ [][Next]_vars

SpecWork == InitWork /\ [][NextWork]_vars

SpecGateway == Init /\ [][NextGateway]_vars

SpecMain == InitMain /\ [][NextMain]_vars

\* The server with its wallets encrypted and unlocked: each wallet was created
\* from a seed (wallet_create), encrypted (password_change) and unlocked again
\* (password_enter) before the requests that follow.
UnlockedWallet(seed, pass) ==
    [NoWallet EXCEPT !.exists = TRUE, !.seed = Encrypt(seed, pass), !.encrypted = TRUE,
                     !.held = seed, !.deterministic_index = 1]

InitLock ==
    /\ \E s \in Seeds :
          /\ wallets = [w \in WalletIds |-> UnlockedWallet(s, "hunter2")]
          /\ accounts = [w \in WalletIds |-> DeriveRows(<< >>, s, 0, 1)]
    /\ blocks = {}
    /\ node = [a \in Addresses |->
                  IF a \in {DerivedAddress(s, i) : s \in Seeds, i \in 0..1}
                  THEN [height |-> 1, balance |-> 1]
                  ELSE [height |-> 0, balance |-> 0]]
    /\ locks = [a \in Addresses |-> "free"]
    /\ req = [c \in Clients |-> IdleReq]
    /\ last = IdleReq
    /\ started = 0
    /\ work_urls = << >>
    /\ client = NoClient(<< >>, FALSE)
    /\ work_failure = 0
    /\ calls = [c \in Callers |-> IdleCall]
    /\ main = MainRunning

\* wallet_lock and password_enter among the requests that insert accounts and
\* publish blocks, all well-formed and on existing wallets, with the work
\* client and the node answering.
NextLock ==
    \/ \E w \in WalletIds : wallet_lock(w, "ok")
    \/ \E w \in WalletIds, p \in Passphrases : password_enter(w, "ok", p)
    \/ \E c \in Clients, w \in WalletIds : account_create_begin(c, w, "ok")
    \/ \E c \in Clients : account_create_txn(c)
    \/ \E c \in Clients, w \in WalletIds : accounts_create_begin(c, w, "ok", 2)
    \/ \E c \in Clients : accounts_create_txn(c, TRUE)
    \/ \E c \in Clients, w \in WalletIds, k \in AdhocKeys : wallet_add_begin(c, w, "ok", k)
    \/ \E c \in Clients : wallet_add_insert(c)
    \/ \E c \in Clients, w \in WalletIds, a \in Addresses : send_begin(c, w, "ok", a, NoId)
    \/ \E c \in Clients, w \in WalletIds, a \in Addresses : receive_begin(c, w, "ok", a)
    \/ \E c \in Clients, w \in WalletIds, a \in Addresses :
          account_representative_set_begin(c, w, "ok", a)
    \/ \E c \in Clients, w \in WalletIds, r \in Representatives :
          wallet_representative_set_begin(c, w, "ok", r, TRUE)
    \/ \E c \in Clients, d \in BOOLEAN : bulk_representative_update(c, d)
    \/ \E c \in Clients, m \in Amounts : Build(c, m, TRUE, "generated")
    \/ \E c \in Clients : Publish(c, TRUE)
    \/ Deliver

SpecLock == InitLock /\ [][NextLock]_vars

\* The class of a process that has not called instance() yet, for each
\* configuration.
InitInstance ==
    /\ InitStore
    /\ \E p \in PeerConfigs, n \in BOOLEAN : client = NoClient(p, n)
    /\ work_urls = << >>
    /\ work_failure = 0
    /\ calls = [c \in Callers |-> IdleCall]
    /\ main = MainRunning

SpecInstance == InitInstance /\ [][NextInstance]_vars

(***************************************************************************)
(* Properties of the work client                                           *)
(***************************************************************************)

Started(c) == calls[c].pc \notin {"idle", "check"}
NonePending(c) == \A t \in DOMAIN calls[c].status : calls[c].status[t] # "pending"

\* One work_cancel for the call's hash per configured peer, and nothing else.
CancelsOncePerPeer(c) ==
    LET sent == calls[c].cancels
        peers == {work_urls[i] : i \in 1..Len(work_urls)}
    IN /\ \A i \in 1..Len(sent) : sent[i].hash = calls[c].hash /\ sent[i].url \in peers
       /\ \A u \in peers : Cardinality({i \in 1..Len(sent) : sent[i].url = u}) = 1

\* C7: once a task has completed with a work field and the wait has handed it
\* to the loop, work_generate has returned the work of the first such task, and
\* has issued exactly one work_cancel for the hash to every configured peer.
C7_FirstWorkWins ==
    \A c \in Callers :
        (calls[c].firstWork # NoWork /\ calls[c].pc # "wait")
            => /\ calls[c].pc = "returned"
               /\ calls[c].ret = calls[c].firstWork
               /\ CancelsOncePerPeer(c)

\* C8: when every task of a call has completed and none produced work, the
\* call goes on to store the failure flag with a 300 s TTL and returns the
\* result of the final local generation for its hash and difficulty.
C8_AllFailedFallsBack ==
    \A c \in Callers :
        (Started(c) /\ NonePending(c) /\ calls[c].firstWork = NoWork)
            => /\ calls[c].pc \in {"wait", "setflag", "final", "returned"}
               /\ calls[c].pc \in {"final", "returned"} => calls[c].setFailure = FailureTtl
               /\ calls[c].pc = "returned"
                     => /\ calls[c].viaFinal
                        /\ calls[c].ret \in LocalWorks(calls[c].hash, calls[c].difficulty)

\* C9: the local generator is in the race from its start exactly when the peer
\* list is empty or the failure flag was set when the call read it; the final
\* local generation runs only when every task of the race has been handled and
\* none produced work.
C9_LocalIffNoPeersOrFlag ==
    \A c \in Callers :
        Started(c) =>
            /\ (calls[c].status[LocalTask] # "absent")
                  <=> (calls[c].flagAtCheck \/ Len(work_urls) = 0)
            /\ (calls[c].pc = "final" \/ calls[c].viaFinal)
                  => /\ \A t \in PeerTasks : calls[c].status[t] = "handled"
                     /\ calls[c].firstWork = NoWork

\* C9 witnesses: with peers configured and no flag, the call fell back to the
\* final local generation after its peers failed.
C9_Witness ==
    \E c \in Callers :
        /\ calls[c].viaFinal /\ Len(work_urls) > 0 /\ ~calls[c].flagAtCheck
        /\ calls[c].status[LocalTask] = "absent"

\* C10: every work value work_generate returns verifies against the call's
\* root and difficulty.
C10_ReturnedWorkVerifies ==
    \A c \in Callers :
        calls[c].pc = "returned"
            => work_verify(calls[c].hash, calls[c].ret, calls[c].difficulty)

\* A task of the call that some asyncio.wait of the call has returned as done.
Awaited(c, t) == calls[c].status[t] \in {"completed", "handled"}

\* C21: once a task has won the race and work_generate has returned, no sibling
\* task is cancelled (each is still pending or has completed by itself) and
\* every sibling that has completed was awaited by the call.
C21_SiblingsRunOnAndAreAwaited ==
    \A c \in Callers :
        (calls[c].pc = "returned" /\ ~calls[c].viaFinal)
            => \A t \in DOMAIN calls[c].status :
                  calls[c].status[t] \in {"absent", "pending"} \/ Awaited(c, t)

\* C24: an exception raised by a peer request never leaves work_generate; the
\* call goes on with the remaining tasks, and when it returns it returns the
\* work of a task, or, after storing the failure flag, that of the final local
\* generation.
C24_PeerExceptionContained ==
    \A c \in Callers :
        /\ calls[c].pc # "raised"
        /\ calls[c].pc = "returned"
              => IF calls[c].viaFinal
                 THEN calls[c].setFailure = FailureTtl
                 ELSE calls[c].ret = calls[c].firstWork
                         \/ \E t \in DOMAIN calls[c].status : calls[c].status[t] = "handled"

\* C23: whenever the work client exists its peer list is the configured peers,
\* with the node URL once at the end when node_work_generate is on; and while
\* no close() intervenes instance() keeps returning the one object.
C23_PeerListAsConfigured ==
    [][/\ client'.instance # None
          => work_urls' = InstanceUrls(client'.configured, client'.node_work_generate)
       /\ (client.instance # None /\ client'.instance # None)
          => /\ client'.instance = client.instance
             /\ \A h \in Holders :
                   client'.held[h] # client.held[h] => client'.held[h] = client.instance]_vars

(***************************************************************************)
(* Properties of the wallet server                                         *)
(***************************************************************************)

\* A request has just been answered.
Answered == last.pc = "done"

\* C1: for every wallet and send id, at most one send block is ever created and
\* published under any interleaving of send requests carrying that id, from any
\* source account of the wallet.
C1_OneBlockPerSendId ==
    \A w \in WalletIds, i \in SendIds : Cardinality(SendRows(w, i)) <= 1

\* The verbs that refuse a locked wallet.
LockedOps ==
    {"account_create", "accounts_create", "account_list", "receive", "send",
     "account_representative_set", "password_change", "wallet_representative_set",
     "wallet_add"}

\* C2: while a wallet is locked, each of account_create, accounts_create,
\* account_list, receive, send, account_representative_set, password_change,
\* wallet_representative_set and wallet_add with well-formed fields answers
\* "wallet locked", and inserts no account, writes no wallet or account field,
\* requests no work and publishes no block.
C2_LockedWalletRefuses ==
    [][(last'.pc = "done" /\ last.pc # "done" /\ last'.op \in LockedOps
            /\ last'.wellformed /\ last'.locked0)
          => /\ last'.resp = Err("wallet locked")
             /\ ~last'.workReq /\ ~last'.published
             /\ UNCHANGED <<wallets, accounts, blocks, node>>]_vars

\* C3: after password_change answers changed 1 the wallet is locked; every
\* account_create on a locked wallet answers "wallet locked"; the wallet stays
\* locked until a password_enter with the passphrase it was encrypted with
\* answers valid 1, which unlocks it; account_create on the unlocked wallet
\* then answers with an account.
C3_LockedUntilPasswordEnter ==
    [][/\ (last'.pc = "done" /\ last.pc # "done" /\ last'.op = "password_change"
              /\ last'.resp = Ok("changed", "1", << >>))
          => /\ LockedRecord(wallets'[last'.wallet])
             /\ CanDecrypt(wallets'[last'.wallet].seed, last'.pass)
       /\ (last'.pc = "done" /\ last.pc # "done" /\ last'.op = "account_create"
              /\ last'.wellformed /\ last'.wallet \in WalletIds
              /\ wallets[last'.wallet].exists)
          => IF last'.locked0
             THEN last'.resp = Err("wallet locked") /\ UNCHANGED <<wallets, accounts>>
             ELSE last'.resp.kind = "account"
       /\ \A w \in WalletIds :
            (Locked(w) /\ ~Locked(w)')
               => /\ last'.op = "password_enter" /\ last'.wallet = w
                  /\ last'.resp = Ok("valid", "1", << >>)
                  /\ CanDecrypt(wallets[w].seed, last'.pass)
       /\ (last'.pc = "done" /\ last.pc # "done" /\ last'.op = "password_enter"
              /\ last'.wellformed /\ last'.locked0
              /\ CanDecrypt(wallets[last'.wallet].seed, last'.pass))
          => /\ last'.resp = Ok("valid", "1", << >>)
             /\ ~LockedRecord(wallets'[last'.wallet])
      ]_vars

\* An account_create succeeded on a wallet that was encrypted and unlocked again.
C3_Witness ==
    /\ Answered /\ last.op = "account_create" /\ last.resp.kind = "account"
    /\ wallets[last.wallet].encrypted /\ ~Locked(last.wallet)

\* The deterministic indices of the rows of wallet w, in insertion order.
DetIndicesOf(rows) ==
    SelectSeq([i \in 1..Len(rows) |-> rows[i].index], LAMBDA x : x # Adhoc)
DetIndices(w) == DetIndicesOf(accounts[w])

\* C4: concurrent account_create requests on one unlocked wallet get pairwise
\* distinct addresses at contiguous deterministic indices, starting at the
\* wallet's previous deterministic_index.
C4_DistinctContiguousIndices ==
    [][/\ \A w \in WalletIds :
            DetIndices(w)' = [i \in 1..wallets'[w].deterministic_index |-> i - 1]
       /\ (last'.pc = "done" /\ last.pc # "done" /\ last'.op = "account_create"
              /\ last'.resp.kind = "account")
          => LET w == last'.wallet
                 n == wallets[w].deterministic_index
             IN /\ last'.idx0 = n
                /\ wallets'[w].deterministic_index = n + 1
                /\ last'.resp.nums = <<DerivedAddress(wallets[w].seed.seed, n)>>
                /\ \A i \in 1..Len(accounts[w]) :
                      accounts[w][i].index # Adhoc
                         => accounts[w][i].address # last'.resp.nums[1]
      ]_vars

\* Two account_create requests were in flight together, and one has answered.
C4_Witness ==
    /\ Answered /\ last.op = "account_create" /\ last.resp.kind = "account"
    /\ \E c \in Clients : req[c].op = "account_create" /\ req[c].pc = "txn"
                             /\ req[c].idx0 < last.idx0 + 1

\* The requests that hold a signed block of account a, not yet published.
InFlight(a) == {c \in Clients : req[c].pc = "publish" /\ req[c].account = a}

\* C5: for every account at most one block publication is in flight at a time,
\* and it builds on the account's current frontier: a later operation builds on
\* the frontier the earlier one produced, and no two blocks of an account are
\* built on one frontier.
C5_OnePublicationPerAccount ==
    /\ \A a \in Addresses :
          /\ Cardinality(InFlight(a)) <= 1
          /\ \A c \in InFlight(a) : req[c].prev = node[a].height /\ locks[a] = c
    /\ \A b1, b2 \in blocks :
          (b1.address = b2.address /\ b1.height = b2.height) => b1 = b2

\* A block is in flight on the frontier an earlier operation of this server
\* produced, while another operation on the account waits for the lock.
C5_Witness ==
    \E a \in Addresses, c \in Clients :
        /\ InFlight(a) # {} /\ c \notin InFlight(a)
        /\ req[c].pc = "lock" /\ req[c].account = a
        /\ \E d \in InFlight(a), b \in blocks : b.address = a /\ b.height = req[d].prev

\* C6: a send is published only when the amount is at most the balance at the
\* frontier its block is built on; when the amount exceeds the balance the
\* request answers "insufficient balance", no work is requested, no block is
\* published and no block row is stored.
C6_SendWithinBalance ==
    [][(last'.pc = "done" /\ last.pc # "done" /\ last'.op = "send")
          => /\ last'.published
                => /\ last'.amt <= last'.bal
                   /\ last'.bal = node[last'.account].balance
                   /\ node'[last'.account].balance = last'.bal - last'.amt
             /\ last'.amt > last'.bal
                => /\ last'.resp = Err("insufficient balance")
                   /\ ~last'.workReq /\ ~last'.published
                   /\ UNCHANGED <<blocks, node>>
      ]_vars

\* A send was refused for an amount above the balance.
C6_Witness ==
    /\ Answered /\ last.op = "send" /\ last.amt > last.bal
    /\ last.resp = Err("insufficient balance")

(***************************************************************************)
(* Properties of the gateway                                               *)
(***************************************************************************)

\* The gateway has just answered a request whose body was b.
GatewayAnswered == Answered /\ last.op = "gateway"

\* C11: a request whose action is one of the 22 unimplemented wallet verbs,
\* in any case and with any blanks around it, is answered not_implemented
\* with no request to the node and no change of state; and no implemented verb
\* is forwarded to the node.
C11_UnimplementedNeverProxied ==
    [][(last'.pc = "done" /\ last.pc # "done" /\ last'.op = "gateway"
            /\ last'.routed.body.hasAction)
          => /\ last'.routed.body.action.verb \in UnimplementedVerbs
                => /\ last'.resp = Err("not_implemented")
                   /\ last'.routed.sent = << >>
                   /\ ~last'.routed.handled
                   /\ UNCHANGED <<wallets, accounts, blocks, node, locks, req>>
             /\ last'.routed.body.action.verb \in ImplementedVerbs
                => last'.routed.sent = << >> /\ last'.routed.handled
      ]_vars

\* An unimplemented verb written in upper case with blanks was refused.
C11_Witness ==
    /\ GatewayAnswered
    /\ last.routed.body.action.verb \in UnimplementedVerbs
    /\ last.routed.body.action.upper /\ last.routed.body.action.padded
    /\ last.resp = Err("not_implemented")

\* C12: a request whose action is neither implemented nor listed as
\* unimplemented makes exactly one request to the node, whose JSON is the
\* client's body unchanged, the action string as the client sent it; the
\* answer is the node's response unchanged.
C12_ProxiedVerbatim ==
    (GatewayAnswered /\ last.routed.body.hasAction
        /\ last.routed.body.action.verb \in NodeVerbs)
       => /\ last.routed.sent = <<last.routed.body>>
          /\ last.resp = Ok("node", last.routed.nodeResp, << >>)
          /\ last.routed.nodeResp \in NodeResponses

\* C13: a body that is malformed JSON, or JSON without an action, is answered
\* "Unable to parse json", with no request to the node and no change of state.
C13_UnparsableIsGenericError ==
    [][(last'.pc = "done" /\ last.pc # "done" /\ last'.op = "gateway"
            /\ ~last'.routed.body.hasAction)
          => /\ last'.resp = generic_error
             /\ last'.routed.sent = << >>
             /\ UNCHANGED <<wallets, accounts, blocks, node, locks, req>>
      ]_vars

(***************************************************************************)
(* Properties of the wallet store                                          *)
(***************************************************************************)

\* C14: in every state outside a transaction every existing wallet has
\* deterministic_index >= 1 and its deterministic accounts carry exactly the
\* indices 0..deterministic_index-1; wallet_create inserts the wallet and its
\* index-0 account together, a rejected seed or a failure leaving neither; and
\* accounts_create(wallet, n) appends exactly n contiguous indices or none.
C14_WalletIndicesExact ==
    [][/\ \A w \in WalletIds :
            IF wallets'[w].exists
            THEN /\ wallets'[w].deterministic_index >= 1
                 /\ DetIndices(w)' = [i \in 1..wallets'[w].deterministic_index |-> i - 1]
            ELSE accounts'[w] = << >>
       /\ (last'.pc = "done" /\ last.pc # "done" /\ last'.op = "wallet_create")
          => IF last'.resp.kind = "wallet"
             THEN /\ ~wallets[last'.wallet].exists
                  /\ wallets'[last'.wallet].exists
                  /\ DetIndicesOf(accounts'[last'.wallet]) = <<0>>
             ELSE UNCHANGED <<wallets, accounts>>
       /\ (last'.pc = "done" /\ last.pc # "done" /\ last'.op = "accounts_create")
          => IF last'.resp.kind = "accounts"
             THEN LET w == last'.wallet
                      n == last'.count
                      first == wallets[w].deterministic_index
                  IN /\ Len(last'.resp.nums) = n
                     /\ wallets'[w].deterministic_index = first + n
                     /\ DetIndicesOf(accounts'[w]) = DetIndices(w) \o [k \in 1..n |-> first + k - 1]
             ELSE UNCHANGED <<wallets, accounts>>
      ]_vars

\* An accounts_create appended two accounts, or a failed one appended none.
C14_Witness ==
    /\ Answered /\ last.op = "accounts_create" /\ last.count = 2
    /\ last.resp.kind = "accounts"
    /\ wallets[last.wallet].deterministic_index = 3

\* The rows of a wallet carry pairwise distinct addresses.
DistinctAddresses(rows) ==
    \A i, j \in 1..Len(rows) : rows[i].address = rows[j].address => i = j

\* C15: after any interleaving of wallet_create, account_create,
\* accounts_create and wallet_add no wallet holds two accounts with one
\* address; a wallet_add whose key maps to an address already in the wallet
\* answers "account already exists" and inserts no row.
C15_UniqueAddresses ==
    [][/\ \A w \in WalletIds : DistinctAddresses(accounts'[w])
       /\ (last'.pc = "done" /\ last.pc # "done" /\ last'.op = "wallet_add"
              /\ last'.wellformed /\ last'.wallet \in WalletIds
              /\ address_of(last'.key) \in WalletAddresses(last'.wallet))
          => /\ last'.resp = Err("account already exists")
             /\ UNCHANGED accounts
      ]_vars

(***************************************************************************)
(* Properties of the handlers' answers                                     *)
(***************************************************************************)

\* Section 7 of the design: the messages of the error table.
ErrorTable ==
    {"Unable to parse json", "Invalid seed", "Invalid key", "Invalid address",
     "Invalid source", "Invalid destination", "wallet not found", "wallet locked",
     "wallet not locked", "Account not found", "Block not found",
     "account already exists", "Failed to generate work", "RPC Process failed",
     "insufficient balance", "not_implemented"}

\* C16: every error answer of an implemented action carries a message of the
\* error table, and no error kind of the wallet store, the block pipeline or
\* the work client leaves a handler unmapped.
C16_ErrorsInTable ==
    (Answered /\ last.op \in ImplementedVerbs)
       => /\ last.resp.kind = "error" => last.resp.msg \in ErrorTable
          /\ last.resp.kind # "exception"

\* C17: account_list on an existing unlocked wallet with an integer count c
\* answers with at most c addresses, all of that wallet; with count omitted it
\* answers with at most 1000 addresses; it never changes state.
C17_AccountListLimited ==
    [][(last'.pc = "done" /\ last.pc # "done" /\ last'.op = "account_list")
          => /\ UNCHANGED <<wallets, accounts, blocks, node>>
             /\ (last'.wellformed /\ last'.wallet \in WalletIds
                    /\ wallets[last'.wallet].exists /\ ~last'.locked0)
                => /\ last'.resp.kind = "accounts"
                   /\ Len(last'.resp.nums) <=
                         (IF last'.count # 0 THEN last'.count ELSE DefaultListCount)
                   /\ \A i \in 1..Len(last'.resp.nums) :
                         last'.resp.nums[i] \in WalletAddresses(last'.wallet)
      ]_vars

\* C18: password_enter with an incorrect passphrase on a locked wallet answers
\* valid 0 and leaves the wallet locked, its stored ciphertext and every other
\* field unchanged, so that a password_enter with the correct passphrase still
\* answers valid 1 and unlocks it.
C18_WrongPassphraseChangesNothing ==
    [][(last'.pc = "done" /\ last.pc # "done" /\ last'.op = "password_enter"
            /\ last'.wellformed /\ last'.locked0)
          => LET w == last'.wallet
             IN IF CanDecrypt(wallets[w].seed, last'.pass)
                THEN /\ last'.resp = Ok("valid", "1", << >>)
                     /\ wallets'[w] = [wallets[w] EXCEPT !.held = wallets[w].seed.seed]
                ELSE /\ last'.resp = Ok("valid", "0", << >>)
                     /\ UNCHANGED <<wallets, accounts, blocks, node>>
                     /\ LockedRecord(wallets'[w])
                     /\ \E p \in Passphrases : CanDecrypt(wallets'[w].seed, p)
      ]_vars

\* A password_enter with a wrong passphrase was refused and the wallet is locked.
C18_Witness ==
    /\ Answered /\ last.op = "password_enter" /\ last.locked0
    /\ last.resp = Ok("valid", "0", << >>)
    /\ Locked(last.wallet)
    /\ ~CanDecrypt(wallets[last.wallet].seed, last.pass)

\* C19: wallet_representative_set is all or nothing: with
\* update_existing_accounts true, a failed bulk update leaves the wallet's
\* default representative at its previous value, and a request that succeeds
\* leaves the default and the override of every account equal to the new
\* representative; without update_existing_accounts only the default changes.
C19_RepresentativeSetAllOrNothing ==
    [][(last'.pc = "done" /\ last.pc # "done" /\ last'.op = "wallet_representative_set"
            /\ last'.wellformed /\ last'.wallet \in WalletIds
            /\ wallets[last'.wallet].exists /\ ~last'.locked0)
          => LET w == last'.wallet
             IN IF last'.resp = Ok("set", "1", << >>)
                THEN /\ wallets'[w].representative = last'.rep
                     /\ IF last'.update
                        THEN \A i \in 1..last'.count :
                                accounts'[w][i].representative = last'.rep
                        ELSE UNCHANGED accounts
                ELSE wallets'[w].representative = last'.rep0
      ]_vars

\* The handler of verb op has just answered a well-formed request.
AnsweredBy(op) ==
    last'.pc = "done" /\ last.pc # "done" /\ last'.op = op /\ last'.wellformed

\* The wallet a request names exists.
Exists(w) == w \in WalletIds /\ wallets[w].exists

\* C22: wallet_lock on an existing wallet, encrypted or not, locked or not,
\* answers locked 1 and leaves the wallet locked; on a missing wallet it answers
\* "wallet not found".  wallet_locked on a locked wallet answers locked 1, and a
\* locked wallet stays locked until a password_enter answers valid 1.
C22_LockedAfterWalletLock ==
    [][/\ AnsweredBy("wallet_lock")
          => IF Exists(last'.wallet)
             THEN /\ last'.resp = Ok("locked", "1", << >>)
                  /\ LockedRecord(wallets'[last'.wallet])
             ELSE last'.resp = Err("wallet not found") /\ UNCHANGED wallets
       /\ (AnsweredBy("wallet_locked") /\ last'.locked0)
          => last'.resp = Ok("locked", "1", << >>)
       /\ \A w \in WalletIds :
            (Locked(w) /\ ~Locked(w)')
               => /\ last'.op = "password_enter" /\ last'.wallet = w
                  /\ last'.resp = Ok("valid", "1", << >>)]_vars

\* What password_valid is to answer for wallet w.
ValidAnswer(w) ==
    IF ~Exists(w) THEN Err("wallet not found")
    ELSE IF ~wallets[w].encrypted THEN Err("wallet not locked")
    ELSE IF Locked(w) THEN Ok("valid", "0", << >>)
    ELSE Ok("valid", "1", << >>)

\* C26: password_valid changes no state and answers valid 1 exactly when the
\* wallet is encrypted and unlocked, valid 0 exactly when it is locked, "wallet
\* not locked" exactly when it was never encrypted and "wallet not found" when
\* it does not exist; wallet_locked on an encrypted wallet answers locked 0
\* exactly in the states where password_valid answers valid 1.
C26_PasswordValidReportsLockState ==
    [][/\ AnsweredBy("password_valid")
          => /\ last'.resp = ValidAnswer(last'.wallet)
             /\ UNCHANGED <<wallets, accounts, blocks, node, locks>>
       /\ (AnsweredBy("wallet_locked") /\ Exists(last'.wallet)
              /\ wallets[last'.wallet].encrypted)
          => (last'.resp = Ok("locked", "0", << >>)
                 <=> ValidAnswer(last'.wallet) = Ok("valid", "1", << >>))]_vars

\* C26 witnesses: password_valid answered valid 1 on a wallet that had been
\* encrypted and unlocked again.
C26_Witness ==
    /\ Answered /\ last.op = "password_valid" /\ last.resp = Ok("valid", "1", << >>)
    /\ wallets[last.wallet].encrypted /\ ~Locked(last.wallet)

\* The rows of the block table that belong to wallet w.
WalletBlocks(w) == {b \in blocks : b.wallet = w}

\* C25: from the completion of a wallet_lock to the next successful
\* password_enter on the wallet, that is while the wallet is locked, no
\* request in flight inserts an account row of the wallet or publishes a block
\* for it.
C25_NothingWrittenWhileLocked ==
    [][\A w \in WalletIds :
          Locked(w) => /\ accounts'[w] = accounts[w]
                       /\ WalletBlocks(w)' = WalletBlocks(w)]_vars

(***************************************************************************)
(* Properties of the main routine                                          *)
(***************************************************************************)

\* C20: whenever the main routine leaves its run phase, by a normal stop or by
\* an exception at a startup step (database initialisation, server
\* construction, server start), the shutdown sequence runs to completion: the
\* RPC client close, the server shutdown and the shared-store close are all
\* awaited, and then the event loop is closed.
C20_ShutdownCompletes ==
    main.pc = "exited"
       => /\ \A t \in ShutdownTasks : main.tasks[t] \in {"done", "failed"}
          /\ main.loopClosed
          /\ main.raised = "none"

====
